---------------------------- MODULE Spec2Model ----------------------------
(***************************************************************************)
(* Identity reconciliation service (IdentityService.identify and the       *)
(* /identify controller) over the contacts table.                          *)
(*                                                                         *)
(* The contacts table is the only shared state.  One Identify call is a    *)
(* sequence of awaited Store operations (findAll, create, instance update, *)
(* bulk update); every Store operation is one atomic step, followed by the *)
(* synchronous code that runs until the next await.                        *)
(*                                                                         *)
(* Not modelled: updatedAt (never read by the service) and deletedAt (the  *)
(* service never deletes, so the paranoid filter never excludes a row).    *)
(***************************************************************************)
EXTENDS Integers, Sequences, FiniteSets, TLC

\* ------------------------------------------------------------------ bounds
\* Rows the table may hold: a call is accepted only while the table, plus
\* one row per call in flight, stays within this size.
MaxContacts == 5
\* The same, while calls interleave.
MaxConcContacts == 3
\* The same, for sequential calls to a Store whose operations may fail.
MaxFailContacts == 4
\* The same, for the interleavings that need a fourth row.
MaxRaceContacts == 4

\* ------------------------------------------------------------------ values
\* null / undefined of a request field or of a column
NULL == "null"
\* the empty string, which the service treats like an absent field
EMPTY == ""
\* linkedId IS NULL
NoId == 0
\* existingContacts of a call that has not made its lookup
NotLooked == -1

EmailValues == {"a@x", "b@x", "c@x"}
PhoneValues == {"111", "222"}

\* what a caller may send in either field
RequestEmails == EmailValues \cup {NULL, EMPTY}
RequestPhones == PhoneValues \cup {NULL, EMPTY}

\* what the interleaved callers send: the empty string is left to the
\* sequential calls, where it is told apart from null
ConcEmails == {"a@x", "b@x", NULL}
ConcPhones == PhoneValues \cup {NULL}

Procs == {1, 2}

VARIABLES
    contacts,           \* the contacts table, rows in insertion order
    pc,                 \* per call: where it stands
    request,            \* per call: the IdentifyRequest
    existingContacts,   \* per call: result of findMatchingContacts
    found,              \* per call: existingContacts.length, once looked up
    allLinkedContacts,  \* per call: in-memory Contact instances
    primaries,          \* per call: ids of the in-memory primaries, sorted
    idx,                \* per call: loop index i of mergePrimaryContacts
    linkTo,             \* per call: primaryContact.id for the new secondary
    response,           \* per call: what the call returned or threw
    begin,              \* per sequential call: the table when it was made
    previous,           \* per call: the call it repeats, if it is a repeat
    effects             \* per call: the Store writes it has made

vars == <<contacts, pc, request, existingContacts, found, allLinkedContacts,
          primaries, idx, linkTo, response, begin, previous, effects>>

\* ------------------------------------------------------- JavaScript values
\* mutant: only null and undefined count as missing
TruthyUnlessNull(x) == x # NULL

\* `if (email)`, `!email`: null, undefined and "" are falsy
Truthy(x) == x # NULL /\ x # EMPTY

\* mutant: the field is stored as it was sent
OrNullKeepsEmpty(x) == x

\* `email || null`
OrNull(x) == IF Truthy(x) THEN x ELSE NULL

\* ------------------------------------------------------------- the table
\* Contact.create: the Store assigns the next id and the creation time.
\* createdAt is the Store's clock, which advances with every insert.
NewContact(store, email, phoneNumber, linkedId, linkPrecedence) ==
    [id |-> Len(store) + 1,
     email |-> email,
     phoneNumber |-> phoneNumber,
     linkedId |-> linkedId,
     linkPrecedence |-> linkPrecedence,
     createdAt |-> Len(store) + 1]

\* a.createdAt.getTime() - b.createdAt.getTime() <= 0
CreatedBefore(a, b) == a.createdAt <= b.createdAt

RECURSIVE InsertByCreatedAt(_, _)
InsertByCreatedAt(sorted, c) ==
    IF sorted = <<>> THEN <<c>>
    ELSE IF CreatedBefore(sorted[Len(sorted)], c) THEN Append(sorted, c)
    ELSE Append(InsertByCreatedAt(SubSeq(sorted, 1, Len(sorted) - 1), c),
                sorted[Len(sorted)])

\* order: [['createdAt', 'ASC']] and primaries.sort(...): a stable sort
RECURSIVE OrderByCreatedAt(_)
OrderByCreatedAt(cs) ==
    IF cs = <<>> THEN <<>>
    ELSE InsertByCreatedAt(OrderByCreatedAt(SubSeq(cs, 1, Len(cs) - 1)),
                           cs[Len(cs)])

Range(s) == {s[k] : k \in 1..Len(s)}

\* ------------------------------------------------------- IdentityService
\* mutant: the lookup has the email condition only
findMatchingByEmail(store, email, phoneNumber) ==
    SelectSeq(store, LAMBDA c : Truthy(email) /\ c.email = email)

findMatchingContacts(store, email, phoneNumber) ==
    SelectSeq(store, LAMBDA c :
        \/ Truthy(email) /\ c.email = email
        \/ Truthy(phoneNumber) /\ c.phoneNumber = phoneNumber)

\* mutant: every contact counts as its own primary, linkedId is not followed
primaryIdsOwn(cs) == {c.id : c \in Range(cs)}

\* the primaryIds set built by getAllLinkedContacts
primaryIds(cs) ==
    {c.id : c \in {d \in Range(cs) : d.linkPrecedence = "primary"}}
    \cup {c.linkedId : c \in {d \in Range(cs) :
                                d.linkPrecedence # "primary" /\ d.linkedId # NoId}}

\* mutant: the closure query selects by id only, the linkedId branch of the
\* Op.or is missing
getAllLinkedContactsByIdOnly(store, cs) ==
    IF Len(cs) = 0 THEN <<>>
    ELSE LET ids == primaryIds(cs)
         IN OrderByCreatedAt(SelectSeq(store, LAMBDA c : c.id \in ids))

\* mutant: the closure query selects by linkedId only, the id branch of the
\* Op.or is missing
getAllLinkedContactsByLinkOnly(store, cs) ==
    IF Len(cs) = 0 THEN <<>>
    ELSE LET ids == primaryIds(cs)
         IN OrderByCreatedAt(SelectSeq(store, LAMBDA c : c.linkedId \in ids))

getAllLinkedContacts(store, cs) ==
    IF Len(cs) = 0 THEN <<>>
    ELSE LET ids == primaryIds(cs)
         IN OrderByCreatedAt(SelectSeq(store, LAMBDA c :
                c.id \in ids \/ c.linkedId \in ids))

RECURSIVE reduceOldest(_, _, _)
reduceOldest(cs, k, oldest) ==
    IF k > Len(cs) THEN oldest
    ELSE reduceOldest(cs, k + 1,
            IF cs[k].linkPrecedence = "primary"
            THEN (IF oldest.createdAt < cs[k].createdAt THEN oldest ELSE cs[k])
            ELSE oldest)

RECURSIVE reduceNewest(_, _, _)
reduceNewest(cs, k, newest) ==
    IF k > Len(cs) THEN newest
    ELSE reduceNewest(cs, k + 1,
            IF cs[k].linkPrecedence = "primary"
            THEN (IF newest.createdAt > cs[k].createdAt THEN newest ELSE cs[k])
            ELSE newest)

\* mutant: the comparison reversed, the reduce keeps the newest primary
findPrimaryContactNewest(cs) == reduceNewest(cs, 2, cs[1])

\* contacts.reduce(...) without an initial value: starts from contacts[0]
findPrimaryContact(cs) == reduceOldest(cs, 2, cs[1])

\* mutant: a contact is created only when one of the two values is unknown
shouldCreateOnNewValue(cs, email, phoneNumber) ==
    IF Truthy(email) /\ Truthy(phoneNumber)
    THEN (\E c \in Range(cs) : c.email = email)
             # (\E c \in Range(cs) : c.phoneNumber = phoneNumber)
    ELSE FALSE

\* mutant: the test that both fields were supplied is missing
shouldCreateOnSingleField(cs, email, phoneNumber) ==
    IF \E c \in Range(cs) : c.email = email /\ c.phoneNumber = phoneNumber
    THEN FALSE
    ELSE \/ \E c \in Range(cs) : c.email = email
         \/ \E c \in Range(cs) : c.phoneNumber = phoneNumber

\* mutant: the exact-combination test is missing
shouldCreateWithoutExactTest(cs, email, phoneNumber) ==
    IF Truthy(email) /\ Truthy(phoneNumber)
    THEN \/ \E c \in Range(cs) : c.email = email
         \/ \E c \in Range(cs) : c.phoneNumber = phoneNumber
    ELSE FALSE

shouldCreateNewContact(cs, email, phoneNumber) ==
    IF Truthy(email) /\ Truthy(phoneNumber)
    THEN IF \E c \in Range(cs) : c.email = email /\ c.phoneNumber = phoneNumber
         THEN FALSE
         ELSE \/ \E c \in Range(cs) : c.email = email
              \/ \E c \in Range(cs) : c.phoneNumber = phoneNumber
    ELSE FALSE

\* mutant: the comparator reversed, so the newest primary survives
sortedPrimariesNewestFirst(cs) ==
    LET ps == OrderByCreatedAt(SelectSeq(cs, LAMBDA c : c.linkPrecedence = "primary"))
    IN [k \in 1..Len(ps) |-> ps[Len(ps) + 1 - k].id]

\* the sorted primaries of mergePrimaryContacts, as ids of the instances
sortedPrimaries(cs) ==
    LET ps == OrderByCreatedAt(SelectSeq(cs, LAMBDA c : c.linkPrecedence = "primary"))
    IN [k \in 1..Len(ps) |-> ps[k].id]

\* mutant: the update sets linkPrecedence and forgets linkedId
demoteKeepsLink(cs, id, oldestId) ==
    [k \in 1..Len(cs) |->
        IF cs[k].id = id
        THEN [cs[k] EXCEPT !.linkPrecedence = "secondary"]
        ELSE cs[k]]

\* row update: UPDATE contacts SET linked_id, link_precedence WHERE id = ...
demote(cs, id, oldestId) ==
    [k \in 1..Len(cs) |->
        IF cs[k].id = id
        THEN [cs[k] EXCEPT !.linkedId = oldestId, !.linkPrecedence = "secondary"]
        ELSE cs[k]]

\* mutant: the dependents of the demoted primary are left as they are
repointNothing(cs, id, oldestId) == cs

\* mutant: the two ids are exchanged between the values and the where clause
repointExchanged(cs, id, oldestId) ==
    [k \in 1..Len(cs) |->
        IF cs[k].linkedId = oldestId
        THEN [cs[k] EXCEPT !.linkedId = id]
        ELSE cs[k]]

\* mutant: the where clause is missing, the bulk update reaches every row
repointEveryRow(cs, id, oldestId) ==
    [k \in 1..Len(cs) |-> [cs[k] EXCEPT !.linkedId = oldestId]]

\* Contact.update({ linkedId }, { where: { linkedId: primaryToConvert.id } })
repoint(cs, id, oldestId) ==
    [k \in 1..Len(cs) |->
        IF cs[k].linkedId = id
        THEN [cs[k] EXCEPT !.linkedId = oldestId]
        ELSE cs[k]]

\* ------------------------------------------------------------ responses
NoResponse ==
    [status |-> "none", primaryContatctId |-> NoId, emails |-> <<>>,
     phoneNumbers |-> <<>>, secondaryContactIds |-> <<>>]

Thrown(message) == [NoResponse EXCEPT !.status = message]

RECURSIVE pushDistinctFront(_, _, _)
\* mutant: unshift instead of push
pushDistinctFront(acc, cs, field) ==
    IF cs = <<>> THEN acc
    ELSE pushDistinctFront(
            IF Truthy(cs[1][field]) /\ cs[1][field] \notin Range(acc)
            THEN <<cs[1][field]>> \o acc ELSE acc,
            Tail(cs), field)

RECURSIVE pushEvery(_, _, _)
\* mutant: the includes test is missing
pushEvery(acc, cs, field) ==
    IF cs = <<>> THEN acc
    ELSE pushEvery(
            IF Truthy(cs[1][field]) THEN Append(acc, cs[1][field]) ELSE acc,
            Tail(cs), field)

RECURSIVE pushDistinct(_, _, _)
\* the forEach over the secondaries: push a truthy value not yet included
pushDistinct(acc, cs, field) ==
    IF cs = <<>> THEN acc
    ELSE pushDistinct(
            IF Truthy(cs[1][field]) /\ cs[1][field] \notin Range(acc)
            THEN Append(acc, cs[1][field]) ELSE acc,
            Tail(cs), field)

\* mutant: the secondaries contribute their ids only, not their values
buildResponseOfPrimary(cs) ==
    IF \A k \in 1..Len(cs) : cs[k].linkPrecedence # "primary"
    THEN Thrown("No primary contact found")
    ELSE LET primary == cs[CHOOSE k \in 1..Len(cs) :
                            /\ cs[k].linkPrecedence = "primary"
                            /\ \A j \in 1..(k - 1) : cs[j].linkPrecedence # "primary"]
             secondaries == SelectSeq(cs, LAMBDA c : c.linkPrecedence = "secondary")
         IN [status |-> "ok",
             primaryContatctId |-> primary.id,
             emails |-> IF Truthy(primary.email) THEN <<primary.email>> ELSE <<>>,
             phoneNumbers |->
                 IF Truthy(primary.phoneNumber) THEN <<primary.phoneNumber>> ELSE <<>>,
             secondaryContactIds |->
                 [k \in 1..Len(secondaries) |-> secondaries[k].id]]

buildResponse(cs) ==
    IF \A k \in 1..Len(cs) : cs[k].linkPrecedence # "primary"
    THEN Thrown("No primary contact found")
    ELSE LET primary == cs[CHOOSE k \in 1..Len(cs) :
                            /\ cs[k].linkPrecedence = "primary"
                            /\ \A j \in 1..(k - 1) : cs[j].linkPrecedence # "primary"]
             secondaries == SelectSeq(cs, LAMBDA c : c.linkPrecedence = "secondary")
         IN [status |-> "ok",
             primaryContatctId |-> primary.id,
             emails |-> pushDistinct(
                 IF Truthy(primary.email) THEN <<primary.email>> ELSE <<>>,
                 secondaries, "email"),
             phoneNumbers |-> pushDistinct(
                 IF Truthy(primary.phoneNumber) THEN <<primary.phoneNumber>> ELSE <<>>,
                 secondaries, "phoneNumber"),
             secondaryContactIds |->
                 [k \in 1..Len(secondaries) |-> secondaries[k].id]]

RECURSIVE mergeFrom(_, _, _, _)
\* the loop of mergePrimaryContacts from index i on: the table and the
\* in-memory instances after it
mergeFrom(store, instances, ps, i) ==
    IF i > Len(ps) THEN [store |-> store, instances |-> instances]
    ELSE mergeFrom(repoint(demote(store, ps[i], ps[1]), ps[i], ps[1]),
                   demote(instances, ps[i], ps[1]), ps, i + 1)

\* identify run from its first statement to its return with no other call
\* and no failure in between: the table it leaves and what it returns
identifyResult(store, email, phoneNumber) ==
    IF ~Truthy(email) /\ ~Truthy(phoneNumber)
    THEN [store |-> store,
          response |-> Thrown("Either email or phoneNumber must be provided")]
    ELSE LET matching == findMatchingContacts(store, email, phoneNumber)
         IN IF Len(matching) = 0
            THEN LET newContact == NewContact(store, OrNull(email),
                                              OrNull(phoneNumber), NoId, "primary")
                 IN [store |-> Append(store, newContact),
                     response |-> buildResponse(<<newContact>>)]
            ELSE LET linked == getAllLinkedContacts(store, matching)
                     create == shouldCreateNewContact(linked, email, phoneNumber)
                     newSecondary == NewContact(store, email, phoneNumber,
                                                findPrimaryContact(linked).id,
                                                "secondary")
                     stored == IF create THEN Append(store, newSecondary) ELSE store
                     instances == IF create THEN Append(linked, newSecondary) ELSE linked
                     merged == mergeFrom(stored, instances,
                                         sortedPrimaries(instances), 2)
                 IN [store |-> merged.store,
                     response |-> buildResponse(
                         getAllLinkedContacts(merged.store, merged.instances))]

\* identify on the path that neither creates nor merges: lookup, closure,
\* re-fetch of the closure, buildResponse
identifyWithoutWrite(store, email, phoneNumber) ==
    buildResponse(getAllLinkedContacts(store,
        getAllLinkedContacts(store, findMatchingContacts(store, email, phoneNumber))))

\* mutant: the catch answers with the status of the success path
httpStatusOkInCatch(r) ==
    IF r.status = "Either email or phoneNumber must be provided" THEN 400
    ELSE 200

\* the controller maps the outcome of the service call to an HTTP status
httpStatus(r) ==
    IF r.status = "ok" THEN 200
    ELSE IF r.status = "Either email or phoneNumber must be provided" THEN 400
    ELSE 500

\* ---------------------------------------------------------------- state
NoRequest == [email |-> NULL, phoneNumber |-> NULL]

\* what a call has written: Contact.create calls made, ids of the rows it
\* demoted with an instance update, bulk re-points made, and the ids of the
\* primaries of its closure C
NoEffects == [inserts |-> 0, demoted |-> <<>>, repoints |-> 0,
              closurePrimaries |-> <<>>]

NoCall == [request |-> NoRequest, response |-> NoResponse, before |-> <<>>]

Init ==
    /\ contacts = <<>>
    /\ pc = [p \in Procs |-> "idle"]
    /\ request = [p \in Procs |-> NoRequest]
    /\ existingContacts = [p \in Procs |-> <<>>]
    /\ found = [p \in Procs |-> NotLooked]
    /\ allLinkedContacts = [p \in Procs |-> <<>>]
    /\ primaries = [p \in Procs |-> <<>>]
    /\ idx = [p \in Procs |-> 0]
    /\ linkTo = [p \in Procs |-> NoId]
    /\ response = [p \in Procs |-> NoResponse]
    /\ begin = [p \in Procs |-> <<>>]
    /\ previous = [p \in Procs |-> NoCall]
    /\ effects = [p \in Procs |-> NoEffects]

InFlight == {q \in Procs : pc[q] \notin {"idle", "done"}}

\* ---------------------------------------------------------------- steps
\* identify has returned or thrown: its locals are gone
Dropped(p) ==
    /\ existingContacts' = [existingContacts EXCEPT ![p] = <<>>]
    /\ allLinkedContacts' = [allLinkedContacts EXCEPT ![p] = <<>>]
    /\ primaries' = [primaries EXCEPT ![p] = <<>>]
    /\ idx' = [idx EXCEPT ![p] = 0]
    /\ linkTo' = [linkTo EXCEPT ![p] = NoId]

\* POST /identify arrives: the validation of the controller and of the
\* service (the same test), before any Store operation.
Arrive(p, email, phoneNumber, prev, table) ==
    /\ request' = [request EXCEPT ![p] =
                      [email |-> email, phoneNumber |-> phoneNumber]]
    /\ IF ~Truthy(email) /\ ~Truthy(phoneNumber)
       THEN /\ response' = [response EXCEPT ![p] =
                   Thrown("Either email or phoneNumber must be provided")]
            /\ pc' = [pc EXCEPT ![p] = "done"]
       ELSE /\ response' = [response EXCEPT ![p] = NoResponse]
            /\ pc' = [pc EXCEPT ![p] = "find"]
    /\ previous' = [previous EXCEPT ![p] = prev]
    /\ begin' = [begin EXCEPT ![p] = table]
    /\ found' = [found EXCEPT ![p] = NotLooked]
    /\ effects' = [effects EXCEPT ![p] = NoEffects]
    /\ UNCHANGED <<contacts, existingContacts, allLinkedContacts, primaries,
                   idx, linkTo>>

\* a client makes a request
Call(p) ==
    /\ pc[p] = "idle"
    /\ Len(contacts) < MaxContacts
    /\ \E email \in RequestEmails, phoneNumber \in RequestPhones :
           Arrive(p, email, phoneNumber, NoCall, contacts)

\* a client that has its response makes the identical request again
Repeat(p) ==
    /\ pc[p] = "done"
    /\ Len(contacts) < MaxContacts
    /\ Arrive(p, request[p].email, request[p].phoneNumber,
              [request |-> request[p], response |-> response[p],
               before |-> begin[p]], contacts)

\* a client that has its response is done with it
Return(p) ==
    /\ pc[p] = "done"
    /\ pc' = [pc EXCEPT ![p] = "idle"]
    /\ request' = [request EXCEPT ![p] = NoRequest]
    /\ response' = [response EXCEPT ![p] = NoResponse]
    /\ previous' = [previous EXCEPT ![p] = NoCall]
    /\ begin' = [begin EXCEPT ![p] = <<>>]
    /\ found' = [found EXCEPT ![p] = NotLooked]
    /\ effects' = [effects EXCEPT ![p] = NoEffects]
    /\ UNCHANGED <<contacts, existingContacts, allLinkedContacts, primaries,
                   idx, linkTo>>

\* await this.findMatchingContacts(email, phoneNumber)
FindMatching(p) ==
    /\ pc[p] = "find"
    /\ LET matching == findMatchingContacts(contacts, request[p].email,
                                         request[p].phoneNumber)
       IN /\ existingContacts' = [existingContacts EXCEPT ![p] = matching]
          /\ found' = [found EXCEPT ![p] = Len(matching)]
          /\ pc' = [pc EXCEPT ![p] =
                       IF Len(matching) = 0 THEN "createPrimary" ELSE "closure"]
    /\ UNCHANGED <<contacts, request, allLinkedContacts, primaries, idx,
                   linkTo, response, begin, previous, effects>>

\* mutant: find-or-create in one Store operation, the lookup made again
\* with the insert
CreatePrimaryUnlessFound(p) ==
    /\ pc[p] = "createPrimary"
    /\ LET matching == findMatchingContacts(contacts, request[p].email,
                                            request[p].phoneNumber)
           newContact == NewContact(contacts, OrNull(request[p].email),
                                    OrNull(request[p].phoneNumber),
                                    NoId, "primary")
       IN IF Len(matching) = 0
          THEN /\ contacts' = Append(contacts, newContact)
               /\ response' = [response EXCEPT ![p] = buildResponse(<<newContact>>)]
               /\ effects' = [effects EXCEPT ![p].inserts = @ + 1]
          ELSE /\ contacts' = contacts
               /\ effects' = effects
               /\ response' = [response EXCEPT ![p] =
                      buildResponse(getAllLinkedContacts(contacts, matching))]
    /\ pc' = [pc EXCEPT ![p] = "done"]
    /\ Dropped(p)
    /\ UNCHANGED <<found, request, begin, previous>>

\* await this.createPrimaryContact(email, phoneNumber); buildResponse
CreatePrimary(p) ==
    /\ pc[p] = "createPrimary"
    /\ LET newContact == NewContact(contacts, OrNull(request[p].email),
                                    OrNull(request[p].phoneNumber),
                                    NoId, "primary")
       IN /\ contacts' = Append(contacts, newContact)
          /\ response' = [response EXCEPT ![p] = buildResponse(<<newContact>>)]
    /\ effects' = [effects EXCEPT ![p].inserts = @ + 1]
    /\ pc' = [pc EXCEPT ![p] = "done"]
    /\ Dropped(p)
    /\ UNCHANGED <<found, request, begin, previous>>

\* mutant: the loop over the sorted primaries starts at i = 0
MergeBeginFromFirst(p, instances) ==
    /\ allLinkedContacts' = [allLinkedContacts EXCEPT ![p] = instances]
    /\ primaries' = [primaries EXCEPT ![p] = sortedPrimaries(instances)]
    /\ IF Len(sortedPrimaries(instances)) <= 1
       THEN /\ pc' = [pc EXCEPT ![p] = "refetch"]
            /\ idx' = [idx EXCEPT ![p] = 0]
       ELSE /\ pc' = [pc EXCEPT ![p] = "demote"]
            /\ idx' = [idx EXCEPT ![p] = 1]

\* mutant: mergePrimaryContacts returns without converting any primary
MergeBeginNothingToMerge(p, instances) ==
    /\ allLinkedContacts' = [allLinkedContacts EXCEPT ![p] = instances]
    /\ primaries' = [primaries EXCEPT ![p] = sortedPrimaries(instances)]
    /\ pc' = [pc EXCEPT ![p] = "refetch"]
    /\ idx' = [idx EXCEPT ![p] = 0]

\* the synchronous head of mergePrimaryContacts: filter, length test, sort
MergeBegin(p, instances) ==
    /\ allLinkedContacts' = [allLinkedContacts EXCEPT ![p] = instances]
    /\ primaries' = [primaries EXCEPT ![p] = sortedPrimaries(instances)]
    /\ IF Len(sortedPrimaries(instances)) <= 1
       THEN /\ pc' = [pc EXCEPT ![p] = "refetch"]
            /\ idx' = [idx EXCEPT ![p] = 0]
       ELSE /\ pc' = [pc EXCEPT ![p] = "demote"]
            /\ idx' = [idx EXCEPT ![p] = 2]

\* mutant: the merge of primaries is skipped when no contact was created
GetAllLinkedMergeAfterCreateOnly(p) ==
    /\ pc[p] = "closure"
    /\ LET linked == getAllLinkedContacts(contacts, existingContacts[p])
       IN IF shouldCreateNewContact(linked, request[p].email,
                                    request[p].phoneNumber)
          THEN /\ linkTo' = [linkTo EXCEPT ![p] = findPrimaryContact(linked).id]
               /\ allLinkedContacts' = [allLinkedContacts EXCEPT ![p] = linked]
               /\ pc' = [pc EXCEPT ![p] = "createSecondary"]
               /\ UNCHANGED <<primaries, idx>>
          ELSE /\ allLinkedContacts' = [allLinkedContacts EXCEPT ![p] = linked]
               /\ primaries' = [primaries EXCEPT ![p] = sortedPrimaries(linked)]
               /\ pc' = [pc EXCEPT ![p] = "refetch"]
               /\ idx' = [idx EXCEPT ![p] = 0]
               /\ UNCHANGED linkTo
    /\ effects' = [effects EXCEPT ![p].closurePrimaries =
           sortedPrimaries(getAllLinkedContacts(contacts, existingContacts[p]))]
    /\ UNCHANGED <<found, contacts, request, existingContacts, response, begin, previous>>

\* await this.getAllLinkedContacts(existingContacts); shouldCreateNewContact
GetAllLinked(p) ==
    /\ pc[p] = "closure"
    /\ LET linked == getAllLinkedContacts(contacts, existingContacts[p])
       IN IF shouldCreateNewContact(linked, request[p].email,
                                    request[p].phoneNumber)
          THEN /\ linkTo' = [linkTo EXCEPT ![p] = findPrimaryContact(linked).id]
               /\ allLinkedContacts' = [allLinkedContacts EXCEPT ![p] = linked]
               /\ pc' = [pc EXCEPT ![p] = "createSecondary"]
               /\ UNCHANGED <<primaries, idx>>
          ELSE /\ MergeBegin(p, linked)
               /\ UNCHANGED linkTo
    /\ effects' = [effects EXCEPT ![p].closurePrimaries =
           sortedPrimaries(getAllLinkedContacts(contacts, existingContacts[p]))]
    /\ UNCHANGED <<found, contacts, request, existingContacts, response, begin, previous>>

\* await Contact.create({..., linkPrecedence: 'secondary'}); push
CreateSecondary(p) ==
    /\ pc[p] = "createSecondary"
    /\ LET newSecondary == NewContact(contacts, request[p].email,
                                      request[p].phoneNumber,
                                      linkTo[p], "secondary")
       IN /\ contacts' = Append(contacts, newSecondary)
          /\ MergeBegin(p, Append(allLinkedContacts[p], newSecondary))
    /\ effects' = [effects EXCEPT ![p].inserts = @ + 1]
    /\ UNCHANGED <<found, request, existingContacts, linkTo, response, begin, previous>>

\* await primaryToConvert.update({ linkedId, linkPrecedence }): the row and
\* the in-memory instance both change
Demote(p) ==
    /\ pc[p] = "demote"
    /\ contacts' = demote(contacts, primaries[p][idx[p]], primaries[p][1])
    /\ allLinkedContacts' = [allLinkedContacts EXCEPT ![p] =
           demote(@, primaries[p][idx[p]], primaries[p][1])]
    /\ effects' = [effects EXCEPT ![p].demoted = Append(@, primaries[p][idx[p]])]
    /\ pc' = [pc EXCEPT ![p] = "repoint"]
    /\ UNCHANGED <<found, request, existingContacts, primaries, idx, linkTo,
                   response, begin, previous>>

\* await Contact.update({ linkedId }, { where: { linkedId } }); i++
Repoint(p) ==
    /\ pc[p] = "repoint"
    /\ contacts' = repoint(contacts, primaries[p][idx[p]], primaries[p][1])
    /\ idx' = [idx EXCEPT ![p] = @ + 1]
    /\ effects' = [effects EXCEPT ![p].repoints = @ + 1]
    /\ pc' = [pc EXCEPT ![p] =
                 IF idx[p] + 1 > Len(primaries[p]) THEN "refetch" ELSE "demote"]
    /\ UNCHANGED <<found, request, existingContacts, allLinkedContacts, primaries,
                   linkTo, response, begin, previous>>

\* await this.getAllLinkedContacts(allLinkedContacts); buildResponse
Refetch(p) ==
    /\ pc[p] = "refetch"
    /\ response' = [response EXCEPT ![p] =
           buildResponse(getAllLinkedContacts(contacts, allLinkedContacts[p]))]
    /\ pc' = [pc EXCEPT ![p] = "done"]
    /\ Dropped(p)
    /\ UNCHANGED <<found, contacts, request, begin, previous, effects>>

\* sequential execution: a call is made only when no call is in flight
SeqCall(p) ==
    /\ \A q \in Procs : pc[q] = "idle"
    /\ Call(p)

\* a client makes a request while other calls may be in flight (when every
\* client is idle they are interchangeable, and the first one calls)
ConcCall(p) ==
    /\ pc[p] = "idle"
    /\ (\A q \in Procs : pc[q] = "idle") => p = 1
    /\ Len(contacts) + Cardinality(InFlight) < MaxConcContacts
    /\ \E email \in ConcEmails, phoneNumber \in ConcPhones :
           Arrive(p, email, phoneNumber, NoCall, <<>>)

\* a Store operation of a call, and what runs until its next await
Step(p) ==
    \/ FindMatching(p)
    \/ CreatePrimary(p)
    \/ GetAllLinked(p)
    \/ CreateSecondary(p)
    \/ Demote(p)
    \/ Repoint(p)
    \/ Refetch(p)

\* one client issues the sequential calls
SeqProcs == {1}

Next == \E p \in SeqProcs : SeqCall(p) \/ Step(p) \/ Repeat(p) \/ Return(p)

\* each Identify call runs to completion before the next starts
Spec == Init /\ [][Next]_vars

ConcNext == \E p \in Procs : ConcCall(p) \/ Step(p) \/ Return(p)

\* calls interleave at Store-operation granularity
ConcSpec == Init /\ [][ConcNext]_vars

\* a call is running alone: it was made while no call was in flight and no
\* other call is let in until it has returned
RunsAlone(p) == pc[p] # "idle" /\ begin[p] # <<>>

\* a client makes a request while other calls may be in flight, unless a
\* call is running alone
JoinCall(p) ==
    /\ \A q \in Procs : ~RunsAlone(q)
    /\ ConcCall(p)

\* a client makes a request on a table that holds contacts, while no call
\* is in flight, and the call runs un-interleaved
AloneCall(p) ==
    /\ \A q \in Procs : pc[q] = "idle"
    /\ p = 1
    /\ contacts # <<>>
    /\ Len(contacts) < MaxConcContacts
    /\ \E email \in ConcEmails, phoneNumber \in ConcPhones :
           Arrive(p, email, phoneNumber, NoCall, contacts)

AfterRaceNext ==
    \E p \in Procs : JoinCall(p) \/ AloneCall(p) \/ Step(p) \/ Return(p)

\* calls interleave, and between them some calls run un-interleaved
AfterRaceSpec == Init /\ [][AfterRaceNext]_vars

\* a client makes a request while other calls may be in flight, on a table
\* that may grow to MaxRaceContacts rows
RaceCall(p) ==
    /\ pc[p] = "idle"
    /\ (\A q \in Procs : pc[q] = "idle") => p = 1
    /\ Len(contacts) + Cardinality(InFlight) < MaxRaceContacts
    /\ \E email \in ConcEmails, phoneNumber \in ConcPhones :
           Arrive(p, email, phoneNumber, NoCall, <<>>)

RaceNext == \E p \in Procs : RaceCall(p) \/ Step(p) \/ Return(p)

\* two calls interleaved at Store-operation granularity
RaceSpec == Init /\ [][RaceNext]_vars

\* the two requests have an email value or a phone value in common
SharesKey(r, email, phoneNumber) ==
    \/ Truthy(email) /\ r.email = email
    \/ Truthy(phoneNumber) /\ r.phoneNumber = phoneNumber

\* a client makes a request that is held back while a call whose request
\* shares an email or a phone value with it is in flight
KeyedCall(p) ==
    /\ pc[p] = "idle"
    /\ (\A q \in Procs : pc[q] = "idle") => p = 1
    /\ Len(contacts) + Cardinality(InFlight) < MaxRaceContacts
    /\ \E email \in ConcEmails, phoneNumber \in ConcPhones :
           /\ \A q \in InFlight : ~SharesKey(request[q], email, phoneNumber)
           /\ Arrive(p, email, phoneNumber, NoCall, <<>>)

KeyedNext == \E p \in Procs : KeyedCall(p) \/ Step(p) \/ Return(p)

\* calls serialized per key: only calls with no key in common interleave
KeyedSpec == Init /\ [][KeyedNext]_vars

\* ------------------------------------------------------ Store failures
\* the error a rejected Store operation makes identify throw, by the await
\* at which the call stood
StoreErrorAt ==
    [find |-> "StoreError: findMatchingContacts",
     createPrimary |-> "StoreError: createPrimaryContact",
     closure |-> "StoreError: getAllLinkedContacts",
     createSecondary |-> "StoreError: Contact.create",
     demote |-> "StoreError: primaryToConvert.update",
     repoint |-> "StoreError: Contact.update",
     refetch |-> "StoreError: getAllLinkedContacts (re-fetch)"]

\* mutant: a rejected Contact.create has stored its row all the same
FailAfterInsert(p) ==
    /\ pc[p] \in DOMAIN StoreErrorAt
    /\ response' = [response EXCEPT ![p] = Thrown(StoreErrorAt[pc[p]])]
    /\ contacts' = IF pc[p] = "createSecondary"
                   THEN Append(contacts, NewContact(contacts, request[p].email,
                               request[p].phoneNumber, linkTo[p], "secondary"))
                   ELSE contacts
    /\ pc' = [pc EXCEPT ![p] = "done"]
    /\ Dropped(p)
    /\ UNCHANGED <<found, request, begin, previous, effects>>

\* the awaited Store operation rejects: it changes nothing, identify throws,
\* and the controller's catch answers 500.  No transaction spans the call,
\* so what its earlier operations wrote stays written.
Fail(p) ==
    /\ pc[p] \in DOMAIN StoreErrorAt
    /\ response' = [response EXCEPT ![p] = Thrown(StoreErrorAt[pc[p]])]
    /\ pc' = [pc EXCEPT ![p] = "done"]
    /\ Dropped(p)
    /\ UNCHANGED <<found, contacts, request, begin, previous, effects>>

\* a client makes a request, one call at a time, to a Store that may fail
FailCall(p) ==
    /\ \A q \in Procs : pc[q] = "idle"
    /\ Len(contacts) < MaxFailContacts
    /\ \E email \in ConcEmails, phoneNumber \in ConcPhones :
           Arrive(p, email, phoneNumber, NoCall, contacts)

\* a client whose call failed with 500 makes the same request again
Retry(p) ==
    /\ pc[p] = "done"
    /\ httpStatus(response[p]) = 500
    /\ Arrive(p, request[p].email, request[p].phoneNumber,
              [request |-> request[p], response |-> response[p],
               before |-> begin[p]], contacts)

FailNext ==
    \E p \in SeqProcs : FailCall(p) \/ Step(p) \/ Fail(p) \/ Retry(p) \/ Return(p)

\* sequential calls, any Store operation of which may fail
FailSpec == Init /\ [][FailNext]_vars

\* ------------------------------------------------- groups of contacts
\* two rows are directly connected: a shared email, a shared phone, or one
\* is the other's linkedId
Adjacent(store, i, j) ==
    \/ Truthy(store[i].email) /\ store[i].email = store[j].email
    \/ Truthy(store[i].phoneNumber) /\ store[i].phoneNumber = store[j].phoneNumber
    \/ store[i].linkedId = store[j].id
    \/ store[j].linkedId = store[i].id

RECURSIVE Reach(_, _)
Reach(store, S) ==
    LET T == S \cup {j \in 1..Len(store) : \E i \in S : Adjacent(store, i, j)}
    IN IF T = S THEN S ELSE Reach(store, T)

\* the connected group of row i, as row indices
Group(store, i) == Reach(store, {i})

PrimariesOf(store, G) == {i \in G : store[i].linkPrecedence = "primary"}

\* no call is in flight
Quiescent == InFlight = {}

\* ---------------------------------------------------------------- C1
\* C1: in sequential execution, after every completed Identify call each
\* connected group of contacts (shared email, shared phone or linkedId) has
\* exactly one primary contact, and that contact has the earliest createdAt
\* of its group.
C1_OnePrimaryPerGroup ==
    Quiescent =>
        \A i \in 1..Len(contacts) :
            LET G == Group(contacts, i)
            IN /\ Cardinality(PrimariesOf(contacts, G)) = 1
               /\ \A k \in PrimariesOf(contacts, G) : \A j \in G :
                      contacts[k].createdAt <= contacts[j].createdAt

\* a completed merge: a demoted primary (no secondary is created with a
\* null field) sits in a group of at least three rows
C1_Witness ==
    /\ Quiescent
    /\ \E i \in 1..Len(contacts) :
        /\ contacts[i].linkPrecedence = "secondary"
        /\ contacts[i].email = NULL
        /\ Cardinality(Group(contacts, i)) >= 3

\* ---------------------------------------------------------------- C2
\* C2: in sequential execution, after every completed Identify call every
\* secondary contact's linkedId is the id of an existing contact that is
\* primary: no secondary points at another secondary.
C2_SecondaryLinksToPrimary ==
    Quiescent =>
        \A i \in 1..Len(contacts) :
            contacts[i].linkPrecedence = "secondary" =>
                \E j \in 1..Len(contacts) :
                    /\ contacts[j].id = contacts[i].linkedId
                    /\ contacts[j].linkPrecedence = "primary"

\* a call has returned that re-pointed a secondary from its demoted primary
\* to the surviving one
C2_Witness ==
    \E p \in Procs :
        /\ pc[p] = "done"
        /\ \E i \in 1..Len(begin[p]) :
            /\ begin[p][i].linkPrecedence = "secondary"
            /\ contacts[i].linkedId # begin[p][i].linkedId

\* ---------------------------------------------------------------- C3
\* C3: in every state of the table, between the Store operations of a call
\* too, a contact has linkedId = null if and only if it is primary.
C3_NullLinkIffPrimary ==
    \A i \in 1..Len(contacts) :
        contacts[i].linkedId = NoId <=> contacts[i].linkPrecedence = "primary"

\* the state between the demotion of a primary and the bulk re-pointing
C3_Witness ==
    \E p \in Procs :
        /\ pc[p] = "repoint"
        /\ contacts[primaries[p][idx[p]]].linkPrecedence = "secondary"
        /\ contacts[primaries[p][idx[p]]].linkedId = primaries[p][1]

\* ---------------------------------------------------------------- C4
\* the row of the table a call's response names as its primary
PrimaryRow(p) == contacts[response[p].primaryContatctId]

\* the row the no-match path stores for a request
IsNewPrimaryFor(row, req) ==
    /\ row.linkPrecedence = "primary"
    /\ row.linkedId = NoId
    /\ row.email = (IF Truthy(req.email) THEN req.email ELSE NULL)
    /\ row.phoneNumber = (IF Truthy(req.phoneNumber) THEN req.phoneNumber ELSE NULL)

\* C4: two interleaved Identify calls for the same (email, phone) whose
\* exact-field lookups both ran before either insert (both lookups came
\* back empty) both take the no-match path and both create a primary: once
\* both have returned, the table holds two primary contacts with the same
\* email and phone.
C4_DualPrimaryRace ==
    \A p \in Procs : \A q \in Procs \ {p} :
        (request[p] = request[q] /\ found[p] = 0 /\ found[q] = 0) =>
            /\ pc[p] \in {"createPrimary", "done"}
            /\ pc[p] = "done" =>
                   /\ response[p].status = "ok"
                   /\ IsNewPrimaryFor(PrimaryRow(p), request[p])
            /\ (pc[p] = "done" /\ pc[q] = "done") =>
                   response[p].primaryContatctId # response[q].primaryContatctId

\* both calls of the race have returned
C4_Witness ==
    \E p \in Procs : \E q \in Procs \ {p} :
        /\ request[p] = request[q]
        /\ Truthy(request[p].email) /\ Truthy(request[p].phoneNumber)
        /\ found[p] = 0 /\ found[q] = 0
        /\ pc[p] = "done" /\ pc[q] = "done"
        /\ Cardinality({i \in 1..Len(contacts) :
               /\ contacts[i].linkPrecedence = "primary"
               /\ contacts[i].email = request[p].email
               /\ contacts[i].phoneNumber = request[p].phoneNumber}) = 2

\* ---------------------------------------------------------------- C5
\* no stored contact has the given email or the given phone
NoStoredMatch(store, req) ==
    \A i \in 1..Len(store) :
        /\ ~(Truthy(req.email) /\ store[i].email = req.email)
        /\ ~(Truthy(req.phoneNumber) /\ store[i].phoneNumber = req.phoneNumber)

Supplied(req) == Truthy(req.email) \/ Truthy(req.phoneNumber)

\* C5: when no stored contact has the given email or the given phone,
\* Identify creates exactly one contact, primary, with linkedId = null and
\* the given email/phone (an absent field stored as null), changes no other
\* contact, and returns primaryContatctId = the new id, emails = [email] if
\* email was given else [], phoneNumbers likewise, secondaryContactIds = [].
C5_NoMatchCreatesPrimary ==
    \A p \in SeqProcs :
        (pc[p] = "done" /\ Supplied(request[p])
         /\ NoStoredMatch(begin[p], request[p])) =>
            /\ Len(contacts) = Len(begin[p]) + 1
            /\ SubSeq(contacts, 1, Len(begin[p])) = begin[p]
            /\ contacts[Len(contacts)].id = Len(contacts)
            /\ \A i \in 1..Len(begin[p]) : begin[p][i].id # Len(contacts)
            /\ IsNewPrimaryFor(contacts[Len(contacts)], request[p])
            /\ response[p] =
                   [status |-> "ok",
                    primaryContatctId |-> Len(contacts),
                    emails |-> IF Truthy(request[p].email)
                               THEN <<request[p].email>> ELSE <<>>,
                    phoneNumbers |-> IF Truthy(request[p].phoneNumber)
                                     THEN <<request[p].phoneNumber>> ELSE <<>>,
                    secondaryContactIds |-> <<>>]

\* a call with an empty-string email and an unknown phone has returned, on
\* a table that already held other customers
C5_Witness ==
    \E p \in SeqProcs :
        /\ pc[p] = "done"
        /\ request[p].email = EMPTY /\ Truthy(request[p].phoneNumber)
        /\ NoStoredMatch(begin[p], request[p])
        /\ Len(begin[p]) >= 2

\* ---------------------------------------------------------------- C6
HasPair(store, req) ==
    \E i \in 1..Len(store) :
        store[i].email = req.email /\ store[i].phoneNumber = req.phoneNumber

\* C6: in sequential execution, if some stored contact already has exactly
\* the pair (email, phone), Identify(email, phone) creates no record and
\* leaves the table unchanged, and called twice in a row it returns the
\* same primaryContatctId, emails, phoneNumbers and secondaryContactIds.
C6_ExactMatchIdempotent ==
    \A p \in SeqProcs :
        (pc[p] = "done" /\ Truthy(request[p].email)
         /\ Truthy(request[p].phoneNumber) /\ HasPair(begin[p], request[p])) =>
            /\ contacts = begin[p]
            /\ response[p].status = "ok"
            /\ (previous[p] # NoCall /\ HasPair(previous[p].before, request[p])) =>
                   /\ previous[p].request = request[p]
                   /\ previous[p].before = contacts
                   /\ response[p] = previous[p].response

\* the second of two identical calls has returned, for a pair stored on a
\* secondary of a group of three
C6_Witness ==
    \E p \in SeqProcs :
        /\ pc[p] = "done"
        /\ previous[p] # NoCall
        /\ HasPair(previous[p].before, request[p])
        /\ Truthy(request[p].email) /\ Truthy(request[p].phoneNumber)
        /\ Len(response[p].secondaryContactIds) >= 2
        /\ \E i \in 1..Len(contacts) :
            /\ contacts[i].linkPrecedence = "secondary"
            /\ contacts[i].email = request[p].email
            /\ contacts[i].phoneNumber = request[p].phoneNumber

\* ---------------------------------------------------------------- C7
\* the table held one contact, a primary with both fields, and the request
\* shares exactly one field with it
SharesOneField(store, req) ==
    /\ Len(store) = 1
    /\ store[1].linkPrecedence = "primary"
    /\ Truthy(store[1].email) /\ Truthy(store[1].phoneNumber)
    /\ Truthy(req.email) /\ Truthy(req.phoneNumber)
    /\ (req.email = store[1].email) # (req.phoneNumber = store[1].phoneNumber)

\* C7: in sequential execution, when the table holds a single primary
\* (A, P) and Identify is called with a pair sharing exactly one field with
\* it, exactly one contact is created, secondary, linked to the primary; the
\* response keeps the primary's id, lists the primary's value first and
\* then the new value for the field that differs, lists the shared value
\* once, and has one secondaryContactId.
C7_SecondaryCreation ==
    \A p \in SeqProcs :
        (pc[p] = "done" /\ SharesOneField(begin[p], request[p])) =>
            LET primary == begin[p][1]
            IN /\ Len(contacts) = 2
               /\ contacts[1] = primary
               /\ contacts[2].id # primary.id
               /\ contacts[2].email = request[p].email
               /\ contacts[2].phoneNumber = request[p].phoneNumber
               /\ contacts[2].linkPrecedence = "secondary"
               /\ contacts[2].linkedId = primary.id
               /\ response[p] =
                      [status |-> "ok",
                       primaryContatctId |-> primary.id,
                       emails |-> IF request[p].email = primary.email
                                  THEN <<primary.email>>
                                  ELSE <<primary.email, request[p].email>>,
                       phoneNumbers |-> IF request[p].phoneNumber = primary.phoneNumber
                                        THEN <<primary.phoneNumber>>
                                        ELSE <<primary.phoneNumber, request[p].phoneNumber>>,
                       secondaryContactIds |-> <<contacts[2].id>>]

\* Identify(B, P) has returned on a table that held the primary (A, P)
C7_Witness ==
    \E p \in SeqProcs :
        /\ pc[p] = "done"
        /\ SharesOneField(begin[p], request[p])
        /\ request[p].email # begin[p][1].email
        /\ response[p].emails = <<begin[p][1].email, request[p].email>>

\* ---------------------------------------------------------------- C8
SingleField(req) == Truthy(req.email) # Truthy(req.phoneNumber)

\* C8: in sequential execution, an Identify call that supplies only one of
\* email/phone and whose value matches a stored contact leaves the table
\* unchanged: no contact is created, no precedence or linkedId is modified.
C8_SingleFieldReadOnly ==
    \A p \in SeqProcs :
        (pc[p] = "done" /\ SingleField(request[p])
         /\ ~NoStoredMatch(begin[p], request[p])) =>
            contacts = begin[p]

\* a phone-only call has returned for a phone stored on a secondary, in a
\* table with rows that do not carry that phone
C8_Witness ==
    \E p \in SeqProcs :
        /\ pc[p] = "done"
        /\ ~Truthy(request[p].email) /\ Truthy(request[p].phoneNumber)
        /\ \E i \in 1..Len(begin[p]) :
            /\ begin[p][i].phoneNumber = request[p].phoneNumber
            /\ begin[p][i].linkPrecedence = "secondary"
        /\ \E i \in 1..Len(begin[p]) :
            begin[p][i].phoneNumber # request[p].phoneNumber
        /\ response[p].status = "ok"

\* ---------------------------------------------------------------- C9
\* the single-field requests by a value a row carries
KeysOf(row) ==
    {[email |-> row.email, phoneNumber |-> NULL] : e \in {row.email} \ {NULL}}
    \cup {[email |-> NULL, phoneNumber |-> row.phoneNumber] :
              f \in {row.phoneNumber} \ {NULL}}

\* every call has returned and its response has been sent: the table a next
\* call will find
BetweenCalls == \A p \in Procs : pc[p] = "idle"

\* the single-field requests by a value any member of row i's group carries
GroupKeys(store, i) == UNION {KeysOf(store[j]) : j \in Group(store, i)}

\* C9: in sequential execution from an empty store, for any group of linked
\* contacts, a single-field Identify by any email or any phone carried by
\* any member of the group (primary or secondary) returns the same
\* response: the same primaryContatctId and identical emails, phoneNumbers
\* and secondaryContactIds lists.
C9_SameResponseForAnyKey ==
    /\ BetweenCalls =>
           \A i \in 1..Len(contacts) :
               \* each group is taken once, at its first row; every key of
               \* the group gives the response that a key of that row gives
               LET G == Group(contacts, i)
                   k1 == CHOOSE k \in KeysOf(contacts[i]) : TRUE
                   r1 == identifyWithoutWrite(contacts, k1.email, k1.phoneNumber)
               IN (\A j \in G : i <= j) =>
                      /\ KeysOf(contacts[i]) # {}
                      /\ r1.status = "ok"
                      /\ \A k2 \in GroupKeys(contacts, i) :
                             identifyWithoutWrite(contacts, k2.email, k2.phoneNumber) = r1
    /\ \A p \in SeqProcs :
           (pc[p] = "done" /\ SingleField(request[p])
            /\ ~NoStoredMatch(begin[p], request[p])) =>
               response[p] = identifyWithoutWrite(contacts, request[p].email,
                                                  request[p].phoneNumber)

\* an email-only call by an email that only a secondary carries has
\* returned, for a group of three whose primary also has a phone
C9_Witness ==
    \E p \in SeqProcs :
        /\ pc[p] = "done"
        /\ Truthy(request[p].email) /\ ~Truthy(request[p].phoneNumber)
        /\ response[p].status = "ok"
        /\ Len(response[p].secondaryContactIds) >= 2
        /\ PrimaryRow(p).email # request[p].email
        /\ Truthy(PrimaryRow(p).phoneNumber)
        /\ Len(response[p].emails) >= 2

\* ---------------------------------------------------------------- C10
\* rows x and y are primaries of separate groups, x created before y, and
\* the request pairs x's email with y's phone
Bridges(store, req, x, y) ==
    /\ x < y
    /\ store[x].linkPrecedence = "primary"
    /\ store[y].linkPrecedence = "primary"
    /\ Truthy(req.email) /\ Truthy(req.phoneNumber)
    /\ store[x].email = req.email
    /\ store[y].phoneNumber = req.phoneNumber
    /\ Group(store, x) \cap Group(store, y) = {}

\* one of the two groups had a secondary
HadSecondaries(store, x, y) ==
    \E i \in Group(store, x) \cup Group(store, y) :
        store[i].linkPrecedence = "secondary"

\* C10: given two primaries in separate groups, X (emailX, phoneX) created
\* before Y (emailY, phoneY), a call Identify(emailX, phoneY) leaves X
\* primary, makes Y secondary with linkedId = X.id, creates exactly one new
\* secondary carrying (emailX, phoneY) with linkedId = X.id, and returns
\* primaryContatctId = X.id with secondaryContactIds consisting of Y's id
\* and the new id (length 2 when neither group had secondaries before).
C10_MergeOrdering ==
    \A p \in SeqProcs :
        pc[p] = "done" =>
            \A x \in 1..Len(begin[p]) : \A y \in 1..Len(begin[p]) :
                Bridges(begin[p], request[p], x, y) =>
                    LET old == begin[p]
                        new == contacts[Len(contacts)]
                    IN /\ Len(contacts) = Len(old) + 1
                       /\ contacts[x] = old[x]
                       /\ contacts[y] = [old[y] EXCEPT
                                             !.linkPrecedence = "secondary",
                                             !.linkedId = old[x].id]
                       /\ \A i \in 1..Len(old) : old[i].id # new.id
                       /\ new.email = request[p].email
                       /\ new.phoneNumber = request[p].phoneNumber
                       /\ new.linkPrecedence = "secondary"
                       /\ new.linkedId = old[x].id
                       /\ response[p].status = "ok"
                       /\ response[p].primaryContatctId = old[x].id
                       /\ old[y].id \in Range(response[p].secondaryContactIds)
                       /\ new.id \in Range(response[p].secondaryContactIds)
                       /\ ~HadSecondaries(old, x, y) =>
                              response[p].secondaryContactIds = <<old[y].id, new.id>>

\* Identify(emailX, phoneY) has returned for two lone primaries that each
\* carry an email and a phone
C10_Witness ==
    \E p \in SeqProcs :
        /\ pc[p] = "done"
        /\ \E x \in 1..Len(begin[p]) : \E y \in 1..Len(begin[p]) :
            /\ Bridges(begin[p], request[p], x, y)
            /\ ~HadSecondaries(begin[p], x, y)
            /\ Truthy(begin[p][x].phoneNumber)
            /\ Truthy(begin[p][y].email)
        /\ Len(response[p].secondaryContactIds) = 2

\* Identify(emailX, phoneY) has returned for two groups of which one had a
\* secondary
C10_WitnessWithSecondaries ==
    \E p \in SeqProcs :
        /\ pc[p] = "done"
        /\ \E x \in 1..Len(begin[p]) : \E y \in 1..Len(begin[p]) :
            /\ Bridges(begin[p], request[p], x, y)
            /\ HadSecondaries(begin[p], x, y)
        /\ Len(response[p].secondaryContactIds) = 3

\* ---------------------------------------------------------------- C11
\* the closure C of a request in a table: the rows of the groups of the
\* rows the exact-field lookup returns
ClosureRows(store, req) ==
    UNION {Group(store, i) : i \in {j \in 1..Len(store) :
        \/ Truthy(req.email) /\ store[j].email = req.email
        \/ Truthy(req.phoneNumber) /\ store[j].phoneNumber = req.phoneNumber}}

\* the new-secondary decision as the claim states it
MustCreate(store, req) ==
    /\ Truthy(req.email) /\ Truthy(req.phoneNumber)
    /\ ~\E i \in ClosureRows(store, req) :
           store[i].email = req.email /\ store[i].phoneNumber = req.phoneNumber
    /\ \E i \in ClosureRows(store, req) :
           store[i].email = req.email \/ store[i].phoneNumber = req.phoneNumber

\* C11: when the exact-field lookup is non-empty, Identify creates a new
\* contact if and only if both email and phone were supplied and no member
\* of the closure C has that exact pair and at least one member of C has
\* that email or that phone; the contact created is a secondary carrying
\* the pair, also when email and phone are each already known in the group
\* on different records.
C11_NewSecondaryDecision ==
    \A p \in SeqProcs :
        (pc[p] = "done" /\ Supplied(request[p])
         /\ ~NoStoredMatch(begin[p], request[p])) =>
            /\ Len(contacts) \in {Len(begin[p]), Len(begin[p]) + 1}
            /\ (Len(contacts) = Len(begin[p]) + 1) <=> MustCreate(begin[p], request[p])
            /\ MustCreate(begin[p], request[p]) =>
                   /\ contacts[Len(contacts)].linkPrecedence = "secondary"
                   /\ contacts[Len(contacts)].email = request[p].email
                   /\ contacts[Len(contacts)].phoneNumber = request[p].phoneNumber

\* a call has returned whose email and phone were both stored in one group,
\* on different records, and a secondary was created for the pair
C11_Witness ==
    \E p \in SeqProcs :
        /\ pc[p] = "done"
        /\ Len(contacts) = Len(begin[p]) + 1
        /\ \E i \in 1..Len(begin[p]) : \E j \in Group(begin[p], i) \ {i} :
            /\ begin[p][i].email = request[p].email
            /\ begin[p][j].phoneNumber = request[p].phoneNumber
            /\ Truthy(request[p].email) /\ Truthy(request[p].phoneNumber)
        /\ contacts[Len(contacts)].linkPrecedence = "secondary"

\* ---------------------------------------------------------------- C12
\* the secondaries of the primary a response names, as row indices (rows
\* are stored in createdAt order)
SecondariesOf(p) ==
    {i \in 1..Len(contacts) :
        /\ contacts[i].linkPrecedence = "secondary"
        /\ contacts[i].linkedId = response[p].primaryContatctId}

Min(S) == CHOOSE m \in S : \A n \in S : m <= n

\* where a value of a response list comes from: 0 for the primary's value,
\* else the first secondary that carries it
FirstAppearance(p, field, v) ==
    IF PrimaryRow(p)[field] = v THEN 0
    ELSE Min({i \in SecondariesOf(p) : contacts[i][field] = v})

\* a response list for a field: no duplicates, every value is the primary's
\* or a secondary's, every value of the group is listed, and the values
\* stand in the order of their first appearance
ListedInFirstAppearanceOrder(p, field, list) ==
    /\ \A m, n \in 1..Len(list) : m < n => list[m] # list[n]
    /\ \A m \in 1..Len(list) :
           /\ Truthy(list[m])
           /\ \/ PrimaryRow(p)[field] = list[m]
              \/ \E i \in SecondariesOf(p) : contacts[i][field] = list[m]
    /\ Truthy(PrimaryRow(p)[field]) => list[1] = PrimaryRow(p)[field]
    /\ \A i \in SecondariesOf(p) :
           Truthy(contacts[i][field]) => contacts[i][field] \in Range(list)
    /\ \A m, n \in 1..Len(list) :
           m < n => FirstAppearance(p, field, list[m])
                        < FirstAppearance(p, field, list[n])

\* C12: in every successful Identify response, emails and phoneNumbers
\* contain no duplicate values, the primary's email (if non-null) is the
\* first element of emails and the primary's phone (if non-null) the first
\* of phoneNumbers, and the remaining values appear in order of their first
\* appearance among the secondaries taken in createdAt-ascending order,
\* even when several secondaries share a value.
C12_OrderAndDedup ==
    \A p \in SeqProcs :
        (pc[p] = "done" /\ response[p].status = "ok") =>
            /\ ListedInFirstAppearanceOrder(p, "email", response[p].emails)
            /\ ListedInFirstAppearanceOrder(p, "phoneNumber", response[p].phoneNumbers)

\* a response for a group in which two secondaries share an email that is
\* not the primary's, and a later secondary brings a third email
C12_Witness ==
    \E p \in SeqProcs :
        /\ pc[p] = "done" /\ response[p].status = "ok"
        /\ \E i, j, k \in SecondariesOf(p) :
            /\ i < j /\ j < k
            /\ contacts[i].email = contacts[j].email
            /\ contacts[i].email # PrimaryRow(p).email
            /\ contacts[k].email \notin {contacts[i].email, PrimaryRow(p).email}
        /\ Len(response[p].emails) = 3
        /\ Len(response[p].phoneNumbers) = 2

\* ---------------------------------------------------------------- C13
\* a request field that is absent, null or the empty string
Absent(x) == x \in {NULL, EMPTY}

ValidationError == Thrown("Either email or phoneNumber must be provided")

\* C13: an Identify call in which both email and phone are absent, null or
\* the empty string fails with a validation error (HTTP 400 at the handler,
\* thrown error at the service), performs no Store operation and leaves the
\* store unchanged; a call with at least one non-empty field is never
\* rejected by validation.
C13_Validation ==
    \A p \in SeqProcs :
        pc[p] # "idle" =>
            IF Absent(request[p].email) /\ Absent(request[p].phoneNumber)
            THEN /\ pc[p] = "done"
                 /\ response[p] = ValidationError
                 /\ httpStatus(response[p]) = 400
                 /\ found[p] = NotLooked
                 /\ contacts = begin[p]
            ELSE /\ response[p] # ValidationError
                 /\ httpStatus(response[p]) # 400
                 /\ pc[p] = "done" => found[p] # NotLooked

\* Identify("", "") has been rejected on a table that holds contacts
C13_Witness ==
    \E p \in SeqProcs :
        /\ pc[p] = "done"
        /\ request[p] = [email |-> EMPTY, phoneNumber |-> EMPTY]
        /\ response[p] = ValidationError
        /\ Len(contacts) >= 2

\* a call with an empty email and a phone has been served
C13_WitnessAccepted ==
    \E p \in SeqProcs :
        /\ pc[p] = "done"
        /\ request[p].email = EMPTY /\ request[p].phoneNumber \in PhoneValues
        /\ response[p].status = "ok"

\* ---------------------------------------------------------------- C14
\* C14: a single Identify call performs at most one insert and at most
\* (p - 1) individual-record demotion updates, where p is the number of
\* primary contacts in the closure C (none when C is empty); the oldest
\* primary in C is never updated.
C14_BoundedSideEffects ==
    \A p \in SeqProcs :
        LET e == effects[p]
            ps == e.closurePrimaries
        IN pc[p] # "idle" =>
           /\ e.inserts <= 1
           /\ Len(contacts) = Len(begin[p]) + e.inserts
           /\ Len(e.demoted) <= (IF Len(ps) = 0 THEN 0 ELSE Len(ps) - 1)
           /\ \A m, n \in 1..Len(e.demoted) : m < n => e.demoted[m] # e.demoted[n]
           /\ \A k \in 1..Len(ps) :
                  /\ begin[p][ps[k]].linkPrecedence = "primary"
                  /\ begin[p][ps[1]].createdAt <= begin[p][ps[k]].createdAt
           /\ Len(ps) > 0 =>
                  /\ ps[1] \notin Range(e.demoted)
                  /\ contacts[ps[1]] = begin[p][ps[1]]
           /\ \A i \in 1..Len(begin[p]) :
                  contacts[i].linkPrecedence # begin[p][i].linkPrecedence
                      => begin[p][i].id \in Range(e.demoted)

\* a call has returned that inserted a secondary and demoted the younger of
\* the two primaries of its closure
C14_Witness ==
    \E p \in SeqProcs :
        /\ pc[p] = "done"
        /\ effects[p].inserts = 1
        /\ Len(effects[p].closurePrimaries) = 2
        /\ Len(effects[p].demoted) = 1
        /\ effects[p].repoints = 1

\* ---------------------------------------------------------------- C15
StoreErrors == {StoreErrorAt[k] : k \in DOMAIN StoreErrorAt}

\* the call of p has aborted on a failed Store operation
StoreFailed(p) == pc[p] = "done" /\ response[p].status \in StoreErrors

\* the call of p failed at one of the named awaits
FailedAt(p, ops) == pc[p] = "done" /\ response[p].status \in {StoreErrorAt[k] : k \in ops}

\* C15 as stated: if any Store operation fails during an Identify call, no
\* Store mutation made by that call has committed before the failure
\* point: the store's contents when the call aborts equal its contents when
\* the call began.
C15_NoPartialMutation ==
    \A p \in SeqProcs : StoreFailed(p) => contacts = begin[p]

\* what a row of the table at the call has become, given the writes the
\* call completed: demoted, re-pointed, or untouched
RowAfterWrites(p, row) ==
    LET e == effects[p]
        oldest == e.closurePrimaries[1]
    IN IF row.id \in Range(e.demoted)
       THEN [row EXCEPT !.linkPrecedence = "secondary", !.linkedId = oldest]
       ELSE IF row.linkedId \in {e.demoted[k] : k \in 1..e.repoints}
       THEN [row EXCEPT !.linkedId = oldest]
       ELSE row

\* C15 amended: if a Store operation fails during an Identify call, the
\* failed operation itself changes nothing and the store when the call
\* aborts is the store when the call began changed by exactly the writes
\* the call had completed (the inserted secondary, the demotions, the
\* re-points); it equals the store at the beginning when the failure is at
\* or before the call's first write (lookup, closure query, insert).
C15_CommittedWritesStay ==
    \A p \in SeqProcs :
        StoreFailed(p) =>
            LET e == effects[p]
            IN /\ Len(contacts) = Len(begin[p]) + e.inserts
               /\ \A i \in 1..Len(begin[p]) :
                      contacts[i] = RowAfterWrites(p, begin[p][i])
               /\ e.inserts = 1 =>
                      /\ contacts[Len(contacts)].linkPrecedence = "secondary"
                      /\ contacts[Len(contacts)].email = request[p].email
                      /\ contacts[Len(contacts)].phoneNumber = request[p].phoneNumber
               /\ FailedAt(p, {"find", "createPrimary", "closure", "createSecondary"})
                      => contacts = begin[p]
               /\ (e.inserts = 0 /\ e.demoted = <<>>) => contacts = begin[p]
               /\ FailedAt(p, {"repoint"}) =>
                      /\ Len(e.demoted) = e.repoints + 1
                      /\ contacts # begin[p]

\* the bulk re-point of a merge has failed after the insert and the
\* demotion, with a secondary still pointing at the demoted contact
C15_Witness ==
    \E p \in SeqProcs :
        /\ FailedAt(p, {"repoint"})
        /\ effects[p].inserts = 1
        /\ Len(effects[p].demoted) = 1
        /\ \E i \in 1..Len(contacts) : contacts[i].linkedId = effects[p].demoted[1]

\* ---------------------------------------------------------------- C16
\* the data-model invariants of a table: one primary per group, the oldest
\* of the group, and every secondary linked directly to a primary
Healthy(store) ==
    /\ \A i \in 1..Len(store) :
           LET G == Group(store, i)
           IN /\ Cardinality(PrimariesOf(store, G)) = 1
              /\ \A k \in PrimariesOf(store, G) : \A j \in G :
                     store[k].createdAt <= store[j].createdAt
    /\ \A i \in 1..Len(store) :
           store[i].linkPrecedence = "secondary" =>
               \E j \in 1..Len(store) :
                   /\ store[j].id = store[i].linkedId
                   /\ store[j].linkPrecedence = "primary"

\* the call of p is the retry of a call that a failed Store operation
\* aborted, made on a sound table, and has itself run to completion
RetriedAfterFailure(p) ==
    /\ pc[p] = "done"
    /\ response[p].status \notin StoreErrors
    /\ previous[p] # NoCall
    /\ previous[p].response.status \in StoreErrors
    /\ Healthy(previous[p].before)

\* C16: in sequential execution, if an Identify call aborts because any one
\* of its Store operations fails (lookup, closure query, insert, demotion
\* update, bulk re-point, or re-fetch) and the caller then retries the same
\* request to completion without failure, the resulting store satisfies the
\* data-model invariants (one primary per group, every secondary linked
\* directly to a primary, at most one record created for the request pair)
\* and the retry returns the same response a failure-free call would have
\* returned.
C16_RetryIsSafe ==
    \A p \in SeqProcs :
        RetriedAfterFailure(p) =>
            /\ Healthy(contacts)
            /\ Len(contacts) <= Len(previous[p].before) + 1
            /\ response[p] = identifyResult(previous[p].before, request[p].email,
                                            request[p].phoneNumber).response

\* ---------------------------------------------------------------- C17
\* what one step may do to the table
AppendOnlyStep ==
    /\ Len(contacts') >= Len(contacts)
    /\ \A i \in 1..Len(contacts) :
           /\ contacts'[i].id = contacts[i].id
           /\ contacts'[i].email = contacts[i].email
           /\ contacts'[i].phoneNumber = contacts[i].phoneNumber
           /\ contacts'[i].createdAt = contacts[i].createdAt
           /\ contacts[i].linkPrecedence = "secondary"
                  => contacts'[i].linkPrecedence = "secondary"
           /\ contacts'[i] # contacts[i] =>
                  /\ contacts'[i].linkPrecedence = "secondary"
                  /\ contacts'[i].linkedId # NoId
                  /\ contacts'[i].linkedId # contacts[i].linkedId

\* C17: across any sequence of Identify calls, no contact is ever deleted,
\* no existing contact's id, email, phone or createdAt ever changes, and
\* the only mutation of an existing contact is a change of precedence from
\* primary to secondary together with setting linkedId (or re-pointing a
\* secondary's linkedId); a contact that is secondary never becomes primary
\* again.
C17_AppendOnly == [][AppendOnlyStep]_vars

\* a call has returned that demoted a primary and re-pointed a secondary
C17_Witness ==
    \E p \in SeqProcs :
        /\ pc[p] = "done"
        /\ \E i, j \in 1..Len(begin[p]) :
            /\ begin[p][i].linkPrecedence = "primary"
            /\ contacts[i].linkPrecedence = "secondary"
            /\ begin[p][j].linkPrecedence = "secondary"
            /\ contacts[j].linkedId # begin[p][j].linkedId

\* ---------------------------------------------------------------- C18
\* C18: in sequential execution from an empty store, the response of a
\* successful Identify call is the projection of the whole post-merge group
\* of the request: primaryContatctId is the id of the group's single
\* primary, secondaryContactIds is exactly the list of ids of every other
\* contact in that group in createdAt-ascending order, and the sets of
\* values in emails and phoneNumbers equal the sets of all non-null emails
\* and phones of the group's contacts.
C18_ResponseIsGroupProjection ==
    \A p \in SeqProcs :
        (pc[p] = "done" /\ response[p].status = "ok") =>
            LET G == ClosureRows(contacts, request[p])
                r == response[p]
                ids == r.secondaryContactIds
            IN /\ G # {}
               /\ {contacts[i].id : i \in PrimariesOf(contacts, G)}
                      = {r.primaryContatctId}
               /\ Range(ids) = {contacts[i].id : i \in G} \ {r.primaryContatctId}
               /\ Len(ids) = Cardinality(G) - 1
               /\ \A m, n \in 1..Len(ids) :
                      m < n => contacts[ids[m]].createdAt < contacts[ids[n]].createdAt
               /\ Range(r.emails) = {contacts[i].email : i \in G} \ {NULL}
               /\ Range(r.phoneNumbers) = {contacts[i].phoneNumber : i \in G} \ {NULL}

\* a call has returned whose group holds a demoted primary, a secondary
\* that was re-pointed, and a contact without a phone
C18_Witness ==
    \E p \in SeqProcs :
        /\ pc[p] = "done" /\ response[p].status = "ok"
        /\ Len(response[p].secondaryContactIds) >= 3
        /\ \E i, j \in 1..Len(begin[p]) :
            /\ begin[p][i].linkPrecedence = "primary"
            /\ contacts[i].linkPrecedence = "secondary"
            /\ begin[p][j].linkPrecedence = "secondary"
            /\ contacts[j].linkedId # begin[p][j].linkedId
        /\ \E i \in ClosureRows(contacts, request[p]) : contacts[i].phoneNumber = NULL

\* ---------------------------------------------------------------- C19
\* a response that carries no contact
CarriesNoContact(r) ==
    /\ r.primaryContatctId = NoId
    /\ r.emails = <<>> /\ r.phoneNumbers = <<>> /\ r.secondaryContactIds = <<>>

\* C19: every Identify request ends in exactly one of two outcomes: a 200
\* response carrying a consolidated contact, or an error response (400 for
\* validation, 500 for any failure of a Store operation or thrown error);
\* a call in which a Store operation failed never returns a 200 response.
C19_NoPartialSuccess ==
    \A p \in SeqProcs :
        /\ pc[p] # "done" => response[p] = NoResponse
        /\ pc[p] = "done" =>
            /\ response[p] # NoResponse
            /\ httpStatus(response[p]) \in {200, 400, 500}
            /\ httpStatus(response[p]) = 200 =>
                   /\ response[p].status = "ok"
                   /\ \E i \in 1..Len(contacts) :
                          /\ contacts[i].id = response[p].primaryContatctId
                          /\ contacts[i].linkPrecedence = "primary"
                   \* the call ran all its steps: table and response are
                   \* those of the whole of identify
                   /\ contacts = identifyResult(begin[p], request[p].email,
                                                request[p].phoneNumber).store
                   /\ response[p] = identifyResult(begin[p], request[p].email,
                                                   request[p].phoneNumber).response
            /\ httpStatus(response[p]) = 400 =>
                   /\ response[p] = ValidationError
                   /\ Absent(request[p].email) /\ Absent(request[p].phoneNumber)
            /\ httpStatus(response[p]) # 200 => CarriesNoContact(response[p])
            /\ StoreFailed(p) => httpStatus(response[p]) = 500

\* the re-fetch of a call failed after the call had inserted a secondary
\* and merged: the answer is 500
C19_Witness ==
    \E p \in SeqProcs :
        /\ FailedAt(p, {"refetch"})
        /\ effects[p].inserts = 1
        /\ Len(effects[p].demoted) = 1
        /\ httpStatus(response[p]) = 500

\* ---------------------------------------------------------------- C20
\* row y was a primary when the call of p began and is a secondary now
DemotedBy(p, y) ==
    /\ y \in 1..Len(begin[p])
    /\ begin[p][y].linkPrecedence = "primary"
    /\ contacts[y].linkPrecedence = "secondary"

\* the oldest primary of the closure of p's request in the table at the call
OldestPrimaryAtCall(p) ==
    LET ps == PrimariesOf(begin[p], ClosureRows(begin[p], request[p]))
    IN CHOOSE x \in ps : \A z \in ps : begin[p][x].createdAt <= begin[p][z].createdAt

\* C20: when Identify merges two groups that each already contain
\* secondaries, then after the call every contact that previously had
\* linkedId = the demoted primary's id has linkedId = the oldest primary's
\* id, and the demoted primary itself has linkedId = the oldest primary's
\* id; no contact is left with linkedId referring to the demoted primary.
C20_BulkRepoint ==
    \A p \in SeqProcs :
        pc[p] = "done" =>
            \A y \in 1..Len(begin[p]) :
                DemotedBy(p, y) =>
                    LET oldest == begin[p][OldestPrimaryAtCall(p)]
                    IN /\ oldest.id # begin[p][y].id
                       /\ contacts[OldestPrimaryAtCall(p)] = oldest
                       /\ contacts[y].linkedId = oldest.id
                       /\ \A i \in 1..Len(begin[p]) :
                              begin[p][i].linkedId = begin[p][y].id
                                  => contacts[i].linkedId = oldest.id
                       /\ \A i \in 1..Len(contacts) :
                              contacts[i].linkedId # begin[p][y].id

\* a merge has completed of two groups that both had a secondary
C20_Witness ==
    \E p \in SeqProcs :
        /\ pc[p] = "done"
        /\ \E y \in 1..Len(begin[p]) :
            /\ DemotedBy(p, y)
            /\ \E i \in 1..Len(begin[p]) : begin[p][i].linkedId = begin[p][y].id
            /\ \E i \in 1..Len(begin[p]) :
                   begin[p][i].linkedId = begin[p][OldestPrimaryAtCall(p)].id

\* ---------------------------------------------------------------- C21
\* the call of p has created a secondary: its lookup was not empty and its
\* Contact.create has been made
CreatedSecondary(p) ==
    /\ pc[p] \in {"demote", "repoint", "refetch", "done"}
    /\ found[p] > 0
    /\ effects[p].inserts = 1

\* the row the call of p has inserted
NewRow(p) == contacts[Len(begin[p]) + 1]

\* C21: in sequential execution, whenever Identify creates a new secondary,
\* its linkedId is the id of the contact in C with precedence = primary and
\* the earliest createdAt, which is the same contact that stays primary
\* after the merge step of that call; the new secondary is never linked to
\* a primary that the same call demotes.  Checked from the insert on,
\* through the merge step, to the return.
C21_NewSecondaryLinksToOldest ==
    \A p \in SeqProcs :
        CreatedSecondary(p) =>
            LET oldest == begin[p][OldestPrimaryAtCall(p)]
            IN /\ NewRow(p).linkPrecedence = "secondary"
               /\ NewRow(p).linkedId = oldest.id
               /\ contacts[OldestPrimaryAtCall(p)] = oldest
               /\ oldest.linkPrecedence = "primary"
               /\ NewRow(p).linkedId \notin Range(effects[p].demoted)
               /\ NewRow(p).linkedId \notin
                      {effects[p].closurePrimaries[k] :
                           k \in 2..Len(effects[p].closurePrimaries)}

\* the call stands between the demotion of the younger primary and the
\* bulk re-point, its new secondary already stored
C21_Witness ==
    \E p \in SeqProcs :
        /\ CreatedSecondary(p)
        /\ pc[p] = "repoint"
        /\ Len(effects[p].demoted) = 1
        /\ NewRow(p).linkedId # effects[p].demoted[1]

\* ---------------------------------------------------------------- C22
\* rows i and j of the store are two primaries with the pair of the request,
\* i the older
RacedPair(store, req, i, j) ==
    /\ i < j
    /\ store[i].linkPrecedence = "primary"
    /\ store[j].linkPrecedence = "primary"
    /\ Truthy(req.email) /\ Truthy(req.phoneNumber)
    /\ \A k \in {i, j} : /\ store[k].email = req.email
                         /\ store[k].phoneNumber = req.phoneNumber

\* the call of p ran alone from a table holding rows i and j, and has finished
HealedBy(p, i, j) ==
    /\ RunsAlone(p)
    /\ pc[p] = "done"
    /\ {i, j} \subseteq 1..Len(begin[p])
    /\ RacedPair(begin[p], request[p], i, j)

\* C22: an un-interleaved Identify with the exact pair of two primaries that
\* carry the same (email, phone) creates no record, turns the younger one into
\* a secondary linked to the older one, answers with the older one's id as
\* primary and the younger one's id among secondaryContactIds, and leaves the
\* group with one primary
C22_ExactPairHealsDualPrimary ==
    \A p \in Procs : \A i, j \in 1..Len(contacts) :
        HealedBy(p, i, j) =>
            /\ effects[p].inserts = 0
            /\ Len(contacts) = Len(begin[p])
            /\ contacts[j].linkPrecedence = "secondary"
            /\ contacts[j].linkedId = begin[p][i].id
            /\ contacts[i] = begin[p][i]
            /\ response[p].status = "ok"
            /\ response[p].primaryContatctId = begin[p][i].id
            /\ begin[p][j].id \in Range(response[p].secondaryContactIds)
            /\ PrimariesOf(contacts, Group(contacts, i)) = {i}

C22_Witness ==
    \E p \in Procs : \E i, j \in 1..Len(contacts) :
        /\ HealedBy(p, i, j)
        /\ effects[p].demoted = <<begin[p][j].id>>

\* ---------------------------------------------------------------- C23
\* the row a secondary is linked to
LinkedRow(store, i) == store[store[i].linkedId]

\* every secondary of the store is linked to a row that is a primary
LinksFlat(store) ==
    \A i \in 1..Len(store) :
        store[i].linkPrecedence = "secondary" =>
            /\ store[i].linkedId \in 1..Len(store)
            /\ LinkedRow(store, i).linkPrecedence = "primary"

\* every linked group of the store has exactly one primary
OnePrimaryEach(store) ==
    \A i \in 1..Len(store) :
        Cardinality(PrimariesOf(store, Group(store, i))) = 1

\* C23: when calls whose requests share an email or a phone value are
\* serialized and only calls with no key in common interleave, then once all
\* calls have completed each linked group has exactly one primary and every
\* secondary is linked directly to a primary
C23_KeyedSerializationKeepsInvariants ==
    Quiescent => OnePrimaryEach(contacts) /\ LinksFlat(contacts)

\* ---------------------------------------------------------------- C24
\* C24: under arbitrary interleaving of calls, once all calls have finished
\* every secondary's linkedId refers to a primary, never to another secondary
C24_InterleavingKeepsLinksFlat ==
    Quiescent => LinksFlat(contacts)

\* ---------------------------------------------------------------- C25
\* C25: under arbitrary interleaving with no Store failure, every call that
\* supplied a key returns a consolidated response and none fails with
\* 'No primary contact found'
C25_InterleavedCallGetsResponse ==
    \A p \in Procs :
        (pc[p] = "done" /\ Supplied(request[p])) =>
            /\ response[p].status = "ok"
            /\ response[p].status # "No primary contact found"

\* ---------------------------------------------------------------- C26
\* the closure that the call of p is about to re-fetch for its response
FinalClosure(p) == getAllLinkedContacts(contacts, allLinkedContacts[p])

\* C26: in sequential execution without Store failures no call fails with
\* 'No primary contact found': the final closure of every call contains a
\* primary, and every call that supplied a key is answered
C26_FinalClosureHasPrimary ==
    \A p \in SeqProcs :
        /\ response[p].status # "No primary contact found"
        /\ pc[p] = "refetch" =>
               \E k \in 1..Len(FinalClosure(p)) :
                   FinalClosure(p)[k].linkPrecedence = "primary"
        /\ (pc[p] = "done" /\ Supplied(request[p])) =>
               /\ response[p].status = "ok"
               /\ response[p].primaryContatctId \in 1..Len(contacts)
               /\ PrimaryRow(p).linkPrecedence = "primary"

\* a call whose lookup found secondaries only, and whose merge demoted a
\* primary, has been answered
C26_Witness ==
    \E p \in SeqProcs :
        /\ pc[p] = "done"
        /\ response[p].status = "ok"
        /\ effects[p].demoted # <<>>
        /\ \A i \in 1..Len(begin[p]) :
               (\/ begin[p][i].email = request[p].email
                \/ begin[p][i].phoneNumber = request[p].phoneNumber)
                   => begin[p][i].linkPrecedence = "secondary"

\* ---------------------------------------------------------------- C27
\* rows i and j carry the same (email, phone), an absent field being null
SamePair(store, i, j) ==
    /\ store[i].email = store[j].email
    /\ store[i].phoneNumber = store[j].phoneNumber

\* C27: in sequential execution no two stored contacts carry the same
\* (email, phone) combination
C27_PairsAreUnique ==
    \A i, j \in 1..Len(contacts) : i # j => ~SamePair(contacts, i, j)

\* a phone-only request whose pair is stored, with a null email, has been
\* answered without an insert
C27_Witness ==
    \E p \in SeqProcs :
        /\ pc[p] = "done"
        /\ response[p].status = "ok"
        /\ effects[p].inserts = 0
        /\ ~Truthy(request[p].email)
        /\ \E i \in 1..Len(begin[p]) :
               /\ begin[p][i].email = NULL
               /\ begin[p][i].phoneNumber = request[p].phoneNumber
        /\ contacts = begin[p]

\* ---------------------------------------------------------------- C28
\* the call of p has been answered with a consolidated contact
Answered(p) == pc[p] = "done" /\ response[p].status = "ok"

\* C28: in sequential execution every successful response contains the keys
\* of its request: the email among emails when an email was supplied, the
\* phone among phoneNumbers when a phone was supplied
C28_ResponseHoldsRequestKeys ==
    \A p \in SeqProcs :
        Answered(p) =>
            /\ ~Absent(request[p].email) =>
                   request[p].email \in Range(response[p].emails)
            /\ ~Absent(request[p].phoneNumber) =>
                   request[p].phoneNumber \in Range(response[p].phoneNumbers)

\* a request with both keys, neither of them carried by the primary of the
\* response, has been answered
C28_Witness ==
    \E p \in SeqProcs :
        /\ Answered(p)
        /\ ~Absent(request[p].email) /\ ~Absent(request[p].phoneNumber)
        /\ PrimaryRow(p).email # request[p].email
        /\ PrimaryRow(p).phoneNumber # request[p].phoneNumber

=============================================================================
